---- MODULE Spec2Model ----
(***************************************************************************)
(* Pet_And_Meet: the pagination hook (src/src/hooks/usePagination.js), the  *)
(* Data page that drives it (src/src/pages/Data.jsx), the cloud function    *)
(* (src/functions/index.js), the Collect page with useFetchAnimals and      *)
(* useSyncFavoritesWithAPI, and filterAnimals.                              *)
(*                                                                          *)
(* Six specifications share the module:                                     *)
(*   SpecHook  the hook called with arbitrary props (page, pageSize, total, *)
(*             withEllipsis) and an onChange recorder, beside its           *)
(*             TypeScript copy evaluated on the same props;                 *)
(*   Spec      the Data page: data load, filter menu, filters effect and    *)
(*             page navigation through the hook's handlers;                 *)
(*   SpecFair  Spec with the scheduled filters effect eventually run;       *)
(*   SpecApi   the cloud function instance serving concurrent requests      *)
(*             while the clock advances;                                    *)
(*   SpecCollect  the Collect page: the runs of the useFetchAnimals effect, *)
(*             refetch, login and logout, and the runs of the sync effect;  *)
(*   SpecFilter  filterAnimals applied to sample lists under any filters.   *)
(***************************************************************************)
EXTENDS Integers, Sequences, FiniteSets, TLC

\* ------------------------------------------------------------------ bounds
MaxTotal == 10
MaxPageSize == 3
MaxPage == 11
MaxCalls == 2
MaxAnimals == 200
MaxReqs == 2
MaxTicks == 3
MaxVersion == 2
MaxId == 2

\* ------------------------------------------------------- program constants
itemsPerPage == 18

VARIABLES
    page,            \* hook prop: current page
    pageSize,        \* hook prop: items per page
    total,           \* hook prop: number of items
    withEllipsis,    \* hook prop
    onChangeCount,   \* number of onChange invocations so far
    onChangeArg,     \* argument of the latest onChange invocation (0: none)
    lastOp,          \* the operation that produced this state
    animals,         \* Data: useFetchAnimals().animals
    loading,         \* Data: useFetchAnimals().loading
    error,           \* Data: useFetchAnimals().error is set
    filters,         \* Data: useState filters
    currentPage,     \* Data: useState currentPage
    showFilter,      \* Data: useState showFilter
    effectPending,   \* Data: the [filters] effect is scheduled, not yet run
    cachedData,      \* cloud function: let cachedData
    cachedTime,      \* cloud function: let cachedTime
    now,             \* the clock read by Date.now()
    ticks,           \* number of advances of the clock so far
    reqs,            \* cloud function: the requests, each with its position
    forceRefresh,    \* useFetchAnimals: useState forceRefresh
    runs,            \* useFetchAnimals: the effect runs (fetchAnimals calls)
    idb,             \* IndexedDB store "animals": keys "data" and "expire"
    apiData,         \* the list the API answers with
    isLoggedIn,      \* useAuthStore().isLoggedIn
    currentUser,     \* getAuth().currentUser is set
    hasRefetched,    \* Collect: useRef hasRefetched
    collects,        \* Firebase users/<uid>/collects
    syncs            \* useSyncFavoritesWithAPI: the effect runs

hookVars == <<page, pageSize, total, withEllipsis, onChangeCount, onChangeArg>>
dataVars == <<animals, loading, error, filters, currentPage, showFilter, effectPending>>
apiVars == <<cachedData, cachedTime, now, ticks, reqs>>
collectVars == <<forceRefresh, runs, idb, apiData, isLoggedIn, currentUser,
                 hasRefetched, collects, syncs>>
vars == <<page, pageSize, total, withEllipsis, onChangeCount, onChangeArg,
          lastOp, animals, loading, error, filters, currentPage,
          showFilter, effectPending, cachedData, cachedTime, now, ticks, reqs,
          forceRefresh, runs, idb, apiData, isLoggedIn, currentUser,
          hasRefetched, collects, syncs>>

\* ================================================================ the hook

\* Math.ceil(a / b) for integers a >= 0, b > 0
MathCeil(a, b) == IF a % b = 0 THEN a \div b ELSE (a \div b) + 1

totalPage_floor(t, ps) == t \div ps
\* const totalPage = Math.ceil(total / pageSize)
totalPage(t, ps) == MathCeil(t, ps)

items_shifted(p, tp) ==
    [item \in 1..tp |-> [type |-> "page", isCurrent |-> (p = item + 1), page |-> item]]
\* [...Array(totalPage).keys()].map(key => key + 1).map(item => ({...}))
items(p, tp) ==
    [item \in 1..tp |-> [type |-> "page", isCurrent |-> (p = item), page |-> item]]

\* item.onClick: () => onChange(item); the onChange arguments it produces
onClick_silent(item) == <<>>
onClick(item) == <<item.page>>

markedItems_noNext(its, p, tp) ==
    [i \in 1..Len(its) |->
        IF \/ its[i].page = tp
           \/ its[i].page = 1
           \/ its[i].page = p
           \/ its[i].page = p - 1
        THEN its[i]
        ELSE [its[i] EXCEPT !.type =
                 IF its[i].page > p THEN "end-ellipsis" ELSE "start-ellipsis"]]
markedItems_noLast(its, p, tp) ==
    [i \in 1..Len(its) |->
        IF \/ its[i].page = 1
           \/ its[i].page = p
           \/ its[i].page = p + 1
           \/ its[i].page = p - 1
        THEN its[i]
        ELSE [its[i] EXCEPT !.type =
                 IF its[i].page > p THEN "end-ellipsis" ELSE "start-ellipsis"]]
\* const markedItems = items.map(item => ...)
markedItems(its, p, tp) ==
    [i \in 1..Len(its) |->
        IF \/ its[i].page = tp
           \/ its[i].page = 1
           \/ its[i].page = p
           \/ its[i].page = p + 1
           \/ its[i].page = p - 1
        THEN its[i]
        ELSE [its[i] EXCEPT !.type =
                 IF its[i].page > p THEN "end-ellipsis" ELSE "start-ellipsis"]]

\* markedItems[index + 1].type / markedItems[index - 1].type on an index
\* outside the array reads a property of undefined: a TypeError
filterThrows(marked) ==
    \E index \in 1..Len(marked) :
        \/ marked[index].type = "start-ellipsis" /\ index + 1 > Len(marked)
        \/ marked[index].type = "end-ellipsis" /\ index - 1 < 1

filterKeeps_endLooksAhead(marked, index) ==
    /\ ~(/\ marked[index].type = "start-ellipsis"
         /\ marked[index + 1].type = "start-ellipsis")
    /\ ~(/\ marked[index].type = "end-ellipsis"
         /\ marked[index - 1].type = "start-ellipsis")
\* the filter callback of ellipsisItems
filterKeeps(marked, index) ==
    /\ ~(/\ marked[index].type = "start-ellipsis"
         /\ marked[index + 1].type = "start-ellipsis")
    /\ ~(/\ marked[index].type = "end-ellipsis"
         /\ marked[index - 1].type = "end-ellipsis")

RECURSIVE filterFrom(_, _)
filterFrom(marked, index) ==
    IF index > Len(marked) THEN <<>>
    ELSE (IF filterKeeps(marked, index) THEN <<marked[index]>> ELSE <<>>)
         \o filterFrom(marked, index + 1)

\* const ellipsisItems = markedItems.filter((item, index) => ...)
ellipsisItems(marked) == filterFrom(marked, 1)

handleClickNext_noClamp(p, tp) == <<p + 1>>
\* handleClickNext: the onChange arguments it produces
handleClickNext(p, tp) == <<IF p + 1 > tp THEN tp ELSE p + 1>>

\* handleClickPrev: the onChange arguments it produces
handleClickPrev(p) == <<IF p - 1 < 1 THEN 1 ELSE p - 1>>

\* the value returned by usePagination({page, pageSize, total, withEllipsis})
usePagination(p, ps, t, w) ==
    LET tp == totalPage(t, ps)
        its == items(p, tp)
        marked == markedItems(its, p, tp)
    IN  IF filterThrows(marked)
        THEN [threw |-> TRUE, items |-> <<>>, totalPage |-> tp]
        ELSE [threw |-> FALSE,
              items |-> IF w THEN ellipsisItems(marked) ELSE its,
              totalPage |-> tp]

\* the hook's values in the current state of SpecHook
hook == usePagination(page, pageSize, total, withEllipsis)
hookItems == items(page, totalPage(total, pageSize))
hookMarked == markedItems(hookItems, page, totalPage(total, pageSize))

\* ============================== the TypeScript copy of the hook
\* (src/src/hooks/useSyncFavoritesWithAPI.ts, usePagination)

\* const totalPage = Math.max(1, Math.ceil(total / pageSize))
totalPage_ts(t, ps) ==
    IF MathCeil(t, ps) > 1 THEN MathCeil(t, ps) ELSE 1

\* const items: PageItem[] = [...Array(totalPage).keys()].map(...).map(...)
items_ts(p, tp) ==
    [item \in 1..tp |-> [type |-> "page", isCurrent |-> (p = item), page |-> item]]

\* const markedItems = items.map((item) => ...)
markedItems_ts(its, p, tp) ==
    [i \in 1..Len(its) |->
        IF \/ its[i].page = tp
           \/ its[i].page = 1
           \/ its[i].page = p
           \/ its[i].page = p + 1
           \/ its[i].page = p - 1
        THEN its[i]
        ELSE [its[i] EXCEPT !.type =
                 IF its[i].page > p THEN "end-ellipsis" ELSE "start-ellipsis"]]

\* the filter callback: markedItems[index + 1]?.type reads undefined, not an
\* error, outside the array
filterKeeps_ts(marked, index) ==
    /\ ~(/\ marked[index].type = "start-ellipsis"
         /\ index + 1 <= Len(marked)
         /\ marked[index + 1].type = "start-ellipsis")
    /\ ~(/\ marked[index].type = "end-ellipsis"
         /\ index - 1 >= 1
         /\ marked[index - 1].type = "end-ellipsis")

RECURSIVE filterFrom_ts(_, _)
filterFrom_ts(marked, index) ==
    IF index > Len(marked) THEN <<>>
    ELSE (IF filterKeeps_ts(marked, index) THEN <<marked[index]>> ELSE <<>>)
         \o filterFrom_ts(marked, index + 1)

\* const ellipsisItems = markedItems.filter((item, index) => ...)
ellipsisItems_ts(marked) == filterFrom_ts(marked, 1)

\* handleClickNext: the onChange arguments it produces
handleClickNext_ts(p, tp) == <<IF p + 1 > tp THEN tp ELSE p + 1>>

\* handleClickPrev: the onChange arguments it produces
handleClickPrev_ts(p) == <<IF p - 1 < 1 THEN 1 ELSE p - 1>>

\* the value returned by the TypeScript usePagination(opts)
usePagination_ts(p, ps, t, w) ==
    LET tp == totalPage_ts(t, ps)
        its == items_ts(p, tp)
        marked == markedItems_ts(its, p, tp)
    IN  [threw |-> FALSE,
         items |-> IF w THEN ellipsisItems_ts(marked) ELSE its,
         totalPage |-> tp]

\* the TypeScript copy's values in the current state of SpecHook
hook_ts == usePagination_ts(page, pageSize, total, withEllipsis)

\* ========================================================== filterAnimals
\* Strings are sequences of characters; a missing (undefined) field is the
\* value Undefined, which is no string of the data.  A Chinese character of
\* the source is written as its pinyin syllable: "mao" (cat), "gou" (dog),
\* "qi" "ta" (other), "gong" (male), "mu" (female), "wei" "zhi" (unknown),
\* "hei" "se" (black), ...; each syllable is one character of the string.
Undefined == <<"undefined">>
Str1(a) == <<a>>
Str2(a, b) == <<a, b>>
Str3(a, b, c) == <<a, b, c>>

\* String.prototype.includes
Includes(s, sub) ==
    \E i \in 0..(Len(s) - Len(sub)) : SubSeq(s, i + 1, i + Len(sub)) = sub

IsWhitespace(c) == c \in {" ", "\t"}
ToLowerCase(c) ==
    CASE c = "A" -> "a" [] c = "B" -> "b" [] c = "M" -> "m"
      [] c = "F" -> "f" [] c = "N" -> "n" [] OTHER -> c

\* const normalize = (s) => String(s || "").replace(/\s+/g, "").toLowerCase()
normalize(s) ==
    LET str == IF s = Undefined THEN <<>> ELSE s
        kept == SelectSeq(str, LAMBDA c : ~IsWhitespace(c))
    IN  [i \in 1..Len(kept) |-> ToLowerCase(kept[i])]

\* const sexMap = { gong: "M", mu: "F", weizhi: "N" }
sexMap(sex) ==
    CASE sex = Str1("gong") -> Str1("M")
      [] sex = Str1("mu") -> Str1("F")
      [] sex = Str2("wei", "zhi") -> Str1("N")
      [] OTHER -> Undefined

\* colorKeywords[color] || [color]
colorKeywords(color) ==
    CASE color = Str2("hei", "se") -> <<Str1("hei"), Str2("hei", "se")>>
      [] color = Str2("bai", "se") -> <<Str1("bai"), Str2("bai", "se")>>
      [] color = Str2("zong", "se") -> <<Str1("zong"), Str2("zong", "se"), Str1("cha")>>
      [] color = Str2("hui", "se") -> <<Str1("hui"), Str2("hui", "se")>>
      [] color = Str2("hu", "ban") -> <<Str1("hu"), Str2("hu", "ban"), Str1("ban")>>
      [] color = Str2("san", "se") -> <<Str2("san", "se")>>
      [] color = Str2("hua", "se") -> <<Str1("hua"), Str2("hua", "se")>>
      [] color = Str2("qi", "ta") -> <<Str2("qi", "ta")>>
      [] OTHER -> <<color>>

\* const areaMatch = !area || animal.animal_place?.includes(area)
areaMatch(animal, area) ==
    \/ area = <<>>
    \/ animal.animal_place # Undefined /\ Includes(animal.animal_place, area)

typeMatch_otherKeepsDogs(animal, type) ==
    LET kind == IF animal.animal_kind = Undefined THEN <<>>
                ELSE animal.animal_kind
    IN  \/ type = <<>>
        \/ type = Str1("mao") /\ Includes(kind, Str1("mao"))
        \/ type = Str1("gou") /\ Includes(kind, Str1("gou"))
        \/ /\ type = Str2("qi", "ta")
           /\ ~Includes(kind, Str1("mao"))
\* const typeMatch = !type || (type === "mao" && kind.includes("mao")) || ...
typeMatch(animal, type) ==
    LET kind == IF animal.animal_kind = Undefined THEN <<>>
                ELSE animal.animal_kind
    IN  \/ type = <<>>
        \/ type = Str1("mao") /\ Includes(kind, Str1("mao"))
        \/ type = Str1("gou") /\ Includes(kind, Str1("gou"))
        \/ /\ type = Str2("qi", "ta")
           /\ ~Includes(kind, Str1("mao"))
           /\ ~Includes(kind, Str1("gou"))

\* const sexMatch = !sex || animal.animal_sex === sexMap[sex]
sexMatch(animal, sex) ==
    \/ sex = <<>>
    \/ animal.animal_sex = sexMap(sex)

\* let colorMatch = true; if (selected) { ... keywords.some(...) }
colorMatch(animal, color) ==
    LET selected == normalize(color)
        animalColor == normalize(animal.animal_colour)
        keywords == colorKeywords(color)
    IN  selected # <<>> =>
            \E k \in 1..Len(keywords) :
                Includes(animalColor, normalize(keywords[k]))

\* const bodyTypeMatch = !bodytype || normalize(...).includes(normalize(bodytype))
bodyTypeMatch(animal, bodytype) ==
    \/ bodytype = <<>>
    \/ Includes(normalize(animal.animal_bodytype), normalize(bodytype))

\* const varietyMatch = !variety || normalize(...).includes(normalize(variety))
varietyMatch(animal, variety) ==
    \/ variety = <<>>
    \/ Includes(normalize(animal.animal_Variety), normalize(variety))

\* export const filterAnimals = (animals, filters) => { ... }
filterAnimals(as, f) ==
    IF Len(as) = 0 THEN <<>>
    ELSE SelectSeq(as, LAMBDA animal :
            /\ areaMatch(animal, f.area)
            /\ typeMatch(animal, f.type)
            /\ sexMatch(animal, f.sex)
            /\ colorMatch(animal, f.color)
            /\ bodyTypeMatch(animal, f.bodytype)
            /\ varietyMatch(animal, f.variety))

\* ------------------------------------------------- the hook under any props
NoOp == [op |-> "init", arg |-> 0]

\* a variable holding null, or holding the array v
Null == [null |-> TRUE, value |-> <<>>]
Some(v) == [null |-> FALSE, value |-> v]

\* the clock at the start of a run, in milliseconds
StartTime == 1000 * 60 * 60 * 24

\* the cloud function instance before its first request
ApiIdle ==
    /\ cachedData = Null
    /\ cachedTime = 0
    /\ now = StartTime
    /\ ticks = 0
    /\ reqs = <<>>

\* the Collect page not mounted
CollectIdle ==
    /\ forceRefresh = 0
    /\ runs = <<>>
    /\ idb = [cache |-> Null, expire |-> 0]
    /\ apiData = <<>>
    /\ isLoggedIn = FALSE
    /\ currentUser = FALSE
    /\ hasRefetched = FALSE
    /\ collects = {}
    /\ syncs = <<>>

\* useState({ area: "", type: "", sex: "" }); the fields the page never sets
\* (color, bodytype, variety) read as undefined, which is falsy like ""
NoFilters ==
    [area |-> <<>>, type |-> <<>>, sex |-> <<>>,
     color |-> <<>>, bodytype |-> <<>>, variety |-> <<>>]

DataIdle ==
    /\ animals = <<>>
    /\ loading = TRUE
    /\ error = FALSE
    /\ filters = NoFilters
    /\ currentPage = 1
    /\ showFilter = FALSE
    /\ effectPending = FALSE

HookInit ==
    /\ page \in 1..MaxPage
    /\ pageSize \in 1..MaxPageSize
    /\ total \in 0..MaxTotal
    /\ withEllipsis \in BOOLEAN
    /\ onChangeCount = 0
    /\ onChangeArg = 0
    /\ lastOp = NoOp
    /\ DataIdle
    /\ ApiIdle
    /\ CollectIdle

\* onChange(arg) for each arg of args, in order
Invoke(args) ==
    /\ onChangeCount' = onChangeCount + Len(args)
    /\ onChangeArg' = IF args = <<>> THEN onChangeArg ELSE args[Len(args)]

\* the caller renders again with another page prop
RenderPage(p) ==
    /\ p # page
    /\ page' = p
    /\ lastOp' = [op |-> "render", arg |-> p]
    /\ UNCHANGED <<pageSize, total, withEllipsis, onChangeCount, onChangeArg>>
    /\ UNCHANGED dataVars
    /\ UNCHANGED <<apiVars, collectVars>>

\* the caller renders again with another total prop
RenderTotal(t) ==
    /\ t # total
    /\ total' = t
    /\ lastOp' = [op |-> "render", arg |-> t]
    /\ UNCHANGED <<page, pageSize, withEllipsis, onChangeCount, onChangeArg>>
    /\ UNCHANGED dataVars
    /\ UNCHANGED <<apiVars, collectVars>>

\* items[i].onClick()
ClickItem(i) ==
    /\ ~hook.threw
    /\ onChangeCount < MaxCalls
    /\ i \in 1..Len(hook.items)
    /\ Invoke(onClick(hook.items[i]))
    /\ lastOp' = [op |-> "click", arg |-> hook.items[i].page]
    /\ UNCHANGED <<page, pageSize, total, withEllipsis>>
    /\ UNCHANGED dataVars
    /\ UNCHANGED <<apiVars, collectVars>>

ClickNext ==
    /\ ~hook.threw
    /\ onChangeCount < MaxCalls
    /\ Invoke(handleClickNext(page, hook.totalPage))
    /\ lastOp' = [op |-> "next", arg |-> 0]
    /\ UNCHANGED <<page, pageSize, total, withEllipsis>>
    /\ UNCHANGED dataVars
    /\ UNCHANGED <<apiVars, collectVars>>

ClickPrev ==
    /\ ~hook.threw
    /\ onChangeCount < MaxCalls
    /\ Invoke(handleClickPrev(page))
    /\ lastOp' = [op |-> "prev", arg |-> 0]
    /\ UNCHANGED <<page, pageSize, total, withEllipsis>>
    /\ UNCHANGED dataVars
    /\ UNCHANGED <<apiVars, collectVars>>

HookNext ==
    \/ \E p \in 1..MaxPage : RenderPage(p)
    \/ \E t \in 0..MaxTotal : RenderTotal(t)
    \/ \E i \in 1..MaxTotal : ClickItem(i)
    \/ ClickNext
    \/ ClickPrev

SpecHook == HookInit /\ [][HookNext]_vars

\* =========================================================== the Data page
\* The API data: animal i of the list, its fields varying with i
Places == <<<<"tai", "bei", "shi", "suo">>, <<"xin", "bei", "shi", "suo">>, Undefined>>
Kinds == <<Str1("mao"), Str1("gou"), Str1("niao"), Undefined>>
SexCodes == <<Str1("M"), Str1("M"), Str1("F"), Str1("F"), Str1("N")>>
AnimalAt(i) ==
    [animal_id |-> i,
     animal_place |-> Places[(i % 3) + 1],
     animal_kind |-> Kinds[(i % 4) + 1],
     animal_sex |-> SexCodes[(i % 5) + 1],
     animal_colour |-> IF i % 2 = 0 THEN Str2("hei", "se") ELSE Str1("bai"),
     animal_bodytype |-> IF i % 2 = 0 THEN Str1("S") ELSE Undefined,
     animal_Variety |-> IF i % 7 = 0 THEN Undefined ELSE Str2("A", "b")]
Dataset(n) == [i \in 1..n |-> AnimalAt(i)]
DatasetSizes ==
    {0, 1, itemsPerPage, itemsPerPage + 1, 2 * itemsPerPage + 1, MaxAnimals}

\* the options of the filter menu ("" is the option "all")
AREAS == {<<>>, Str3("tai", "bei", "shi"), Str3("xin", "bei", "shi")}
TYPES == {<<>>, Str1("mao"), Str1("gou"), Str2("qi", "ta")}
SEXES == {<<>>, Str1("gong"), Str1("mu"), Str2("wei", "zhi")}

\* const filteredAnimals = useMemo(() => filterAnimals(animals, filters))
filteredAnimals == filterAnimals(animals, filters)

\* const pagination = usePagination({ page: currentPage, pageSize:
\* itemsPerPage, total: filteredAnimals.length, withEllipsis: true, ... })
pagination == usePagination(currentPage, itemsPerPage, Len(filteredAnimals), TRUE)

\* Array.prototype.slice(start, end)
slice(arr, start, end) ==
    LET len == Len(arr)
        from == IF start < 0
                THEN (IF len + start > 0 THEN len + start ELSE 0)
                ELSE (IF start < len THEN start ELSE len)
        to == IF end < 0
              THEN (IF len + end > 0 THEN len + end ELSE 0)
              ELSE (IF end < len THEN end ELSE len)
    IN  SubSeq(arr, from + 1, to)

\* const pageNum = pagination.page || currentPage || 1; the hook returns no
\* page, so pagination.page is undefined
pageNum(cp) == IF cp # 0 THEN cp ELSE 1

currentAnimals_nextPage(fa, pn) ==
    slice(fa, pn * itemsPerPage, pn * itemsPerPage + itemsPerPage)
\* const currentAnimals = useMemo(() => filteredAnimals.slice(startIndex,
\* endIndex)), startIndex = (pageNum - 1) * itemsPerPage
currentAnimals(fa, pn) ==
    slice(fa, (pn - 1) * itemsPerPage, (pn - 1) * itemsPerPage + itemsPerPage)

\* the animals the page shows in the current state
shownAnimals == currentAnimals(filteredAnimals, pageNum(currentPage))

\* the pagination bar is rendered: !loading && !error && totalPage > 1
paginationShown ==
    /\ ~loading
    /\ ~error
    /\ ~pagination.threw
    /\ pagination.totalPage > 1

\* onChange: setCurrentPage, called with each of args in order
setCurrentPage(args) ==
    currentPage' = IF args = <<>> THEN currentPage ELSE args[Len(args)]

HookIdle ==
    /\ page = 1
    /\ pageSize = itemsPerPage
    /\ total = 0
    /\ withEllipsis = TRUE
    /\ onChangeCount = 0
    /\ onChangeArg = 0

\* the first render: the effects of the mount are scheduled
Init ==
    /\ animals = <<>>
    /\ loading = TRUE
    /\ error = FALSE
    /\ filters = NoFilters
    /\ currentPage = 1
    /\ showFilter = FALSE
    /\ effectPending = TRUE
    /\ lastOp = NoOp
    /\ HookIdle
    /\ ApiIdle
    /\ CollectIdle

\* React.useEffect(() => { setCurrentPage(1); }, [filters]), run after the
\* render that saw the new filters
FiltersEffect_noReset ==
    /\ effectPending
    /\ effectPending' = FALSE
    /\ lastOp' = [op |-> "effect", arg |-> currentPage]
    /\ UNCHANGED <<animals, loading, error, filters, currentPage, showFilter>>
    /\ UNCHANGED hookVars
    /\ UNCHANGED <<apiVars, collectVars>>
\* lastOp.arg keeps the page shown before the reset
FiltersEffect ==
    /\ effectPending
    /\ setCurrentPage(<<1>>)
    /\ effectPending' = FALSE
    /\ lastOp' = [op |-> "effect", arg |-> currentPage]
    /\ UNCHANGED <<animals, loading, error, filters, showFilter>>
    /\ UNCHANGED hookVars
    /\ UNCHANGED <<apiVars, collectVars>>

\* useFetchAnimals: setAnimals(data); setLoading(false)
FetchDone(n) ==
    /\ ~effectPending
    /\ loading
    /\ animals' = Dataset(n)
    /\ loading' = FALSE
    /\ lastOp' = [op |-> "load", arg |-> n]
    /\ UNCHANGED <<error, filters, currentPage, showFilter, effectPending>>
    /\ UNCHANGED hookVars
    /\ UNCHANGED <<apiVars, collectVars>>

\* useFetchAnimals: setError(err); setLoading(false)
FetchFailed ==
    /\ ~effectPending
    /\ loading
    /\ error' = TRUE
    /\ loading' = FALSE
    /\ lastOp' = [op |-> "loadError", arg |-> 0]
    /\ UNCHANGED <<animals, filters, currentPage, showFilter, effectPending>>
    /\ UNCHANGED hookVars
    /\ UNCHANGED <<apiVars, collectVars>>

\* onClick={() => setShowFilter(true)}
OpenFilter ==
    /\ ~effectPending
    /\ ~showFilter
    /\ showFilter' = TRUE
    /\ lastOp' = [op |-> "openFilter", arg |-> 0]
    /\ UNCHANGED <<animals, loading, error, filters, currentPage, effectPending>>
    /\ UNCHANGED hookVars
    /\ UNCHANGED <<apiVars, collectVars>>

\* handleFilter / onClose: setShowFilter(false)
handleFilter ==
    /\ ~effectPending
    /\ showFilter
    /\ showFilter' = FALSE
    /\ lastOp' = [op |-> "closeFilter", arg |-> 0]
    /\ UNCHANGED <<animals, loading, error, filters, currentPage, effectPending>>
    /\ UNCHANGED hookVars
    /\ UNCHANGED <<apiVars, collectVars>>

\* AnimalFilterMenu: setFilters((f) => ({ ...f, area })), likewise type, sex;
\* the new object schedules the [filters] effect
SetFilter(field, value) ==
    /\ ~effectPending
    /\ showFilter
    /\ filters' = [filters EXCEPT ![field] = value]
    /\ effectPending' = TRUE
    /\ lastOp' = [op |-> "filter", arg |-> 0]
    /\ UNCHANGED <<animals, loading, error, currentPage, showFilter>>
    /\ UNCHANGED hookVars
    /\ UNCHANGED <<apiVars, collectVars>>

\* handleReset: setFilters({ area: "", type: "", sex: "" }); setShowFilter(false)
handleReset ==
    /\ ~effectPending
    /\ showFilter
    /\ filters' = NoFilters
    /\ showFilter' = FALSE
    /\ effectPending' = TRUE
    /\ lastOp' = [op |-> "reset", arg |-> 0]
    /\ UNCHANGED <<animals, loading, error, currentPage>>
    /\ UNCHANGED hookVars
    /\ UNCHANGED <<apiVars, collectVars>>

\* <PageButton pageNum={item.page} onClick={setCurrentPage} />
PageButtonClick(i) ==
    /\ ~effectPending
    /\ paginationShown
    /\ i \in 1..Len(pagination.items)
    /\ pagination.items[i].type = "page"
    /\ setCurrentPage(onClick(pagination.items[i]))
    /\ lastOp' = [op |-> "click", arg |-> pagination.items[i].page]
    /\ UNCHANGED <<animals, loading, error, filters, showFilter, effectPending>>
    /\ UNCHANGED hookVars
    /\ UNCHANGED <<apiVars, collectVars>>

\* onClick={pagination.handleClickNext}
NextButtonClick ==
    /\ ~effectPending
    /\ paginationShown
    /\ setCurrentPage(handleClickNext(currentPage, pagination.totalPage))
    /\ lastOp' = [op |-> "next", arg |-> 0]
    /\ UNCHANGED <<animals, loading, error, filters, showFilter, effectPending>>
    /\ UNCHANGED hookVars
    /\ UNCHANGED <<apiVars, collectVars>>

\* onClick={pagination.handleClickPrev}
PrevButtonClick ==
    /\ ~effectPending
    /\ paginationShown
    /\ setCurrentPage(handleClickPrev(currentPage))
    /\ lastOp' = [op |-> "prev", arg |-> 0]
    /\ UNCHANGED <<animals, loading, error, filters, showFilter, effectPending>>
    /\ UNCHANGED hookVars
    /\ UNCHANGED <<apiVars, collectVars>>

Next ==
    \/ FiltersEffect
    \/ \E n \in DatasetSizes : FetchDone(n)
    \/ FetchFailed
    \/ OpenFilter
    \/ handleFilter
    \/ \E a \in AREAS : SetFilter("area", a)
    \/ \E t \in TYPES : SetFilter("type", t)
    \/ \E x \in SEXES : SetFilter("sex", x)
    \/ handleReset
    \/ \E i \in 1..Len(pagination.items) : PageButtonClick(i)
    \/ NextButtonClick
    \/ PrevButtonClick

Spec == Init /\ [][Next]_vars

\* React runs a scheduled effect after the render that scheduled it
SpecFair == Spec /\ WF_vars(FiltersEffect)

\* ===================================================== the cloud function
\* (src/functions/index.js, api)

\* const CACHE_DURATION = 1000 * 60 * 60 * 6
CACHE_DURATION == 1000 * 60 * 60 * 6

\* setTimeout(() => controller.abort(), 10000)
FETCH_TIMEOUT == 10000

\* the amounts by which the clock advances between two steps
ClockSteps == {FETCH_TIMEOUT, CACHE_DURATION - FETCH_TIMEOUT}

\* version v of the upstream list: version 0 has no item with a picture
UpstreamAt(v) ==
    IF v = 0
    THEN <<[animal_id |-> 0, album_file |-> <<>>]>>
    ELSE <<[animal_id |-> v, album_file |-> Str1("u")],
           [animal_id |-> v + 1, album_file |-> <<>>],
           [animal_id |-> v + 2, album_file |-> Undefined]>>

\* !!item.album_file
hasAlbumFile(item) == item.album_file # <<>> /\ item.album_file # Undefined

\* const filteredData = data.filter(item => !!item.album_file)
filteredData(data) == SelectSeq(data, hasAlbumFile)

cacheFresh_inclusive(cd, ct, n) == ~cd.null /\ n - ct <= CACHE_DURATION
\* if (cachedData && now - cachedTime < CACHE_DURATION)
cacheFresh(cd, ct, n) == ~cd.null /\ n - ct < CACHE_DURATION

\* the requests sent to the function: method and path
Requests ==
    {<<"OPTIONS", "/animals">>, <<"GET", "/">>, <<"GET", "/animals">>,
     <<"GET", "/other">>}

NoBody == <<>>
\* the response sent through res
Response(status, body, cacheControl) ==
    [status |-> status, body |-> body, cacheControl |-> cacheControl]
NoResponse == Response(0, NoBody, FALSE)

\* a request: its position, its const now, whether it called fetch(API_URL),
\* how that fetch ended, and its response
NewReq(method, path) ==
    [method |-> method, path |-> path, pc |-> "new", now |-> 0,
     fetched |-> FALSE, outcome |-> "none", res |-> NoResponse]

fallback_always500(cd) == Response(500, NoBody, FALSE)
\* catch (fetchErr): if (cachedData) return res.json(cachedData); throw
\* fetchErr, which the outer catch answers with res.status(500).json(...)
fallback(cd) ==
    IF ~cd.null THEN Response(200, cd.value, FALSE)
    ELSE Response(500, NoBody, FALSE)

\* the instance receives a request and runs the handler up to its first
\* await or to its response
Arrive(method, path) ==
    /\ Len(reqs) < MaxReqs
    /\ LET r == NewReq(method, path)
           done(res) == [r EXCEPT !.pc = "done", !.res = res]
       IN  reqs' = Append(reqs,
               IF method = "OPTIONS" THEN done(Response(204, NoBody, FALSE))
               ELSE IF path = "/" THEN done(Response(200, NoBody, FALSE))
               ELSE IF path = "/animals"
               THEN IF cacheFresh(cachedData, cachedTime, now)
                    THEN [done(Response(200, cachedData.value, FALSE))
                              EXCEPT !.now = now]
                    ELSE [r EXCEPT !.pc = "fetching", !.now = now,
                                   !.fetched = TRUE]
               ELSE done(Response(404, NoBody, FALSE)))
    /\ lastOp' = [op |-> "arrive", arg |-> Len(reqs) + 1]
    /\ UNCHANGED <<cachedData, cachedTime, now, ticks>>
    /\ UNCHANGED <<hookVars, dataVars, collectVars>>

\* fetch resolves with an OK response holding version v: update the cache,
\* set Cache-Control, answer with the filtered list
UpstreamOk(i, v) ==
    /\ i \in 1..Len(reqs)
    /\ reqs[i].pc = "fetching"
    /\ cachedData' = Some(filteredData(UpstreamAt(v)))
    /\ cachedTime' = reqs[i].now
    /\ reqs' = [reqs EXCEPT ![i].pc = "done", ![i].outcome = "ok",
                   ![i].res = Response(200, filteredData(UpstreamAt(v)), TRUE)]
    /\ lastOp' = [op |-> "upstreamOk", arg |-> i]
    /\ UNCHANGED <<now, ticks>>
    /\ UNCHANGED <<hookVars, dataVars, collectVars>>

FailureKinds == {"status", "network", "abort"}

\* the fetch fails: !response.ok, a network error, or the abort after
\* FETCH_TIMEOUT; the inner catch answers
UpstreamFailed(i, why) ==
    /\ i \in 1..Len(reqs)
    /\ reqs[i].pc = "fetching"
    /\ why = "abort" => now - reqs[i].now >= FETCH_TIMEOUT
    /\ reqs' = [reqs EXCEPT ![i].pc = "done", ![i].outcome = why,
                   ![i].res = fallback(cachedData)]
    /\ lastOp' = [op |-> "upstreamFailed", arg |-> i]
    /\ UNCHANGED <<cachedData, cachedTime, now, ticks>>
    /\ UNCHANGED <<hookVars, dataVars, collectVars>>

\* time passes
Tick(d) ==
    /\ ticks < MaxTicks
    /\ now' = now + d
    /\ ticks' = ticks + 1
    /\ lastOp' = [op |-> "tick", arg |-> d]
    /\ UNCHANGED <<cachedData, cachedTime, reqs>>
    /\ UNCHANGED <<hookVars, dataVars, collectVars>>

ApiInit ==
    /\ ApiIdle
    /\ lastOp = NoOp
    /\ HookIdle
    /\ DataIdle
    /\ CollectIdle

ApiNext ==
    \/ \E r \in Requests : Arrive(r[1], r[2])
    \/ \E i \in 1..MaxReqs, v \in 0..MaxVersion : UpstreamOk(i, v)
    \/ \E i \in 1..MaxReqs, why \in FailureKinds : UpstreamFailed(i, why)
    \/ \E d \in ClockSteps : Tick(d)

SpecApi == ApiInit /\ [][ApiNext]_vars

\* ======================================================== the Collect page
\* (src/src/pages/Collect.jsx with src/src/hooks/useFetchAnimals.ts and
\* useSyncFavoritesWithAPI of src/src/hooks/useSyncFavoritesWithAPI.ts)

\* const CACHE_DURATION = 1000 * 60 * 60 * 24 (useFetchAnimals.ts)
CACHE_DURATION_idb == 1000 * 60 * 60 * 24

Ids == 1..MaxId

\* the animals with the ids of S, by ascending id
RECURSIVE AnimalsOf(_)
AnimalsOf(S) ==
    IF S = {} THEN <<>>
    ELSE LET m == CHOOSE x \in S : \A y \in S : x <= y
         IN  <<AnimalAt(m)>> \o AnimalsOf(S \ {m})

Lists == {AnimalsOf(S) : S \in SUBSET Ids}

\* users/<uid>/collects: each entry is the animal stored under a push key
Entry(key, id) == [key |-> key, animal_id |-> id]
CollectsOf(S) == {Entry(i, i) : i \in S}

\* the contents of the IndexedDB store at the mount: nothing, a cache that
\* has not expired, a cache that has
IdbStates ==
    {[cache |-> Null, expire |-> 0]}
        \cup {[cache |-> Some(l), expire |-> e] :
                 l \in Lists, e \in {StartTime, StartTime + 1}}

\* one run of the effect of useFetchAnimals: the forceRefresh it closed
\* over, its position, whether its controller was aborted, the data it
\* holds and how it ended
NewRun(fr) ==
    [forceRefresh |-> fr, pc |-> "getCache", aborted |-> FALSE,
     data |-> <<>>, end |-> "none"]

\* return () => controller.abort(): the cleanup of the run before; then the
\* effect runs again with the new forceRefresh
startRun(rs, fr) ==
    Append([i \in 1..Len(rs) |->
               IF rs[i].pc = "done" THEN rs[i]
               ELSE [rs[i] EXCEPT !.aborted = TRUE]],
           NewRun(fr))

\* if (!user || isLoading || !Array.isArray(animals) || animals.length === 0)
\* return
syncGuard(user, isLoading, as) == user /\ ~isLoading /\ Len(as) # 0

\* one run of the effect of useSyncFavoritesWithAPI(animals, isLoading)
NewSync(user, isLoading, as) ==
    [user |-> user, isLoading |-> isLoading, animals |-> as,
     pc |-> IF syncGuard(user, isLoading, as) THEN "get" ELSE "skipped",
     snapshot |-> {}, pending |-> {}, removed |-> {}]

\* the effect of useSyncFavoritesWithAPI, run because animals or isLoading
\* changed in the render
syncEffect(ss, user, isLoading, as) == Append(ss, NewSync(user, isLoading, as))

\* const apiAnimalIds = new Set(animals.map((a) => a.animal_id))
apiAnimalIds(as) == {as[i].animal_id : i \in 1..Len(as)}

outdated_keepsFirst(snapshot, as) ==
    {e \in snapshot : e.animal_id \notin apiAnimalIds(as) /\ e.animal_id # 1}
\* the entries for which remove(...) is pushed: animalId !== undefined &&
\* !apiAnimalIds.has(animalId)
outdated(snapshot, as) ==
    {e \in snapshot : e.animal_id \notin apiAnimalIds(as)}

mounted == runs # <<>>

\* the state before the first render of Collect
CollectInit ==
    /\ forceRefresh = 0
    /\ runs = <<>>
    /\ idb \in IdbStates
    /\ apiData \in Lists
    /\ isLoggedIn \in BOOLEAN
    /\ currentUser = isLoggedIn
    /\ hasRefetched = FALSE
    /\ collects \in {CollectsOf(S) : S \in SUBSET Ids}
    /\ syncs = <<>>
    /\ animals = <<>>
    /\ loading = TRUE
    /\ error = FALSE
    /\ filters = NoFilters
    /\ currentPage = 1
    /\ showFilter = FALSE
    /\ effectPending = FALSE
    /\ lastOp = NoOp
    /\ HookIdle
    /\ ApiIdle

\* the first render and its effects, in the order of the hooks: the effect
\* of useFetchAnimals starts run 0; the effect of Collect calls refetch()
\* when isLoggedIn, and the render that follows aborts run 0 and starts
\* run 1; the effect of useSyncFavoritesWithAPI sees isLoading true
Mount ==
    /\ ~mounted
    /\ IF isLoggedIn
       THEN /\ hasRefetched' = TRUE
            /\ forceRefresh' = forceRefresh + 1
            /\ runs' = startRun(startRun(runs, forceRefresh), forceRefresh + 1)
       ELSE /\ runs' = startRun(runs, forceRefresh)
            /\ UNCHANGED <<hasRefetched, forceRefresh>>
    /\ loading' = TRUE
    /\ error' = FALSE
    /\ syncs' = syncEffect(syncs, currentUser, loading, animals)
    /\ lastOp' = [op |-> "mount", arg |-> 0]
    /\ UNCHANGED <<animals, filters, currentPage, showFilter, effectPending>>
    /\ UNCHANGED <<idb, apiData, isLoggedIn, currentUser, collects>>
    /\ UNCHANGED <<hookVars, apiVars>>

\* the user logs in: the effect of Collect ([isLoggedIn, refetch]) calls
\* refetch() unless hasRefetched.current: setLoading(true); setError(null);
\* setForceRefresh(prev => prev + 1)
LogIn ==
    /\ mounted
    /\ ~isLoggedIn
    /\ isLoggedIn' = TRUE
    /\ currentUser' = TRUE
    /\ IF ~hasRefetched
       THEN /\ hasRefetched' = TRUE
            /\ forceRefresh' = forceRefresh + 1
            /\ runs' = startRun(runs, forceRefresh + 1)
            /\ loading' = TRUE
            /\ error' = FALSE
            /\ syncs' = IF loading THEN syncs
                        ELSE syncEffect(syncs, TRUE, TRUE, animals)
       ELSE UNCHANGED <<hasRefetched, forceRefresh, runs, loading, error,
                        syncs>>
    /\ lastOp' = [op |-> "login", arg |-> 0]
    /\ UNCHANGED <<animals, filters, currentPage, showFilter, effectPending>>
    /\ UNCHANGED <<idb, apiData, collects>>
    /\ UNCHANGED <<hookVars, apiVars>>

\* the user logs out
LogOut ==
    /\ mounted
    /\ isLoggedIn
    /\ isLoggedIn' = FALSE
    /\ currentUser' = FALSE
    /\ lastOp' = [op |-> "logout", arg |-> 0]
    /\ UNCHANGED dataVars
    /\ UNCHANGED <<forceRefresh, runs, idb, apiData, hasRefetched, collects,
                   syncs>>
    /\ UNCHANGED <<hookVars, apiVars>>

\* the run ends: finally { setLoading(false) }; the render that follows
\* runs the effect of useSyncFavoritesWithAPI when animals or loading
\* changed (as: the animals set by the run, or animals when it set none)
EndRun(r, how, as) ==
    /\ runs' = [runs EXCEPT ![r].pc = "done", ![r].end = how]
    /\ animals' = as
    /\ loading' = FALSE
    /\ syncs' = IF how \in {"cache", "api"} \/ loading
                THEN syncEffect(syncs, currentUser, FALSE, as)
                ELSE syncs

\* await getCache() resolves: the cache is delivered when it is valid and
\* forceRefresh === 0; otherwise fetch(API_URL, { signal }) is called, which
\* rejects at once with an AbortError when the signal is already aborted
GetCacheDone(r) ==
    /\ r \in 1..Len(runs)
    /\ runs[r].pc = "getCache"
    /\ IF /\ ~idb.cache.null
          /\ idb.expire # 0
          /\ now < idb.expire
          /\ runs[r].forceRefresh = 0
       THEN /\ EndRun(r, "cache", idb.cache.value)
            /\ UNCHANGED error
       ELSE IF runs[r].aborted
       THEN /\ EndRun(r, "abort", animals)
            /\ UNCHANGED error
       ELSE /\ runs' = [runs EXCEPT ![r].pc = "fetch"]
            /\ UNCHANGED <<animals, loading, error, syncs>>
    /\ lastOp' = [op |-> "getCache", arg |-> r]
    /\ UNCHANGED <<filters, currentPage, showFilter, effectPending>>
    /\ UNCHANGED <<forceRefresh, idb, apiData, isLoggedIn, currentUser,
                   hasRefetched, collects>>
    /\ UNCHANGED <<hookVars, apiVars>>

\* the fetch resolves with an OK response and response.json() with the list
FetchOk(r) ==
    /\ r \in 1..Len(runs)
    /\ runs[r].pc = "fetch"
    /\ ~runs[r].aborted
    /\ runs' = [runs EXCEPT ![r].pc = "setCache", ![r].data = apiData]
    /\ lastOp' = [op |-> "fetchOk", arg |-> r]
    /\ UNCHANGED dataVars
    /\ UNCHANGED <<forceRefresh, idb, apiData, isLoggedIn, currentUser,
                   hasRefetched, collects, syncs>>
    /\ UNCHANGED <<hookVars, apiVars>>

\* the fetch fails or the response is not OK: setError(err)
FetchError(r) ==
    /\ r \in 1..Len(runs)
    /\ runs[r].pc = "fetch"
    /\ ~runs[r].aborted
    /\ EndRun(r, "error", animals)
    /\ error' = TRUE
    /\ lastOp' = [op |-> "fetchError", arg |-> r]
    /\ UNCHANGED <<filters, currentPage, showFilter, effectPending>>
    /\ UNCHANGED <<forceRefresh, idb, apiData, isLoggedIn, currentUser,
                   hasRefetched, collects>>
    /\ UNCHANGED <<hookVars, apiVars>>

\* the fetch of an aborted run rejects with an AbortError: no setError
FetchAborted(r) ==
    /\ r \in 1..Len(runs)
    /\ runs[r].pc = "fetch"
    /\ runs[r].aborted
    /\ EndRun(r, "abort", animals)
    /\ lastOp' = [op |-> "fetchAborted", arg |-> r]
    /\ UNCHANGED <<error, filters, currentPage, showFilter, effectPending>>
    /\ UNCHANGED <<forceRefresh, idb, apiData, isLoggedIn, currentUser,
                   hasRefetched, collects>>
    /\ UNCHANGED <<hookVars, apiVars>>

\* await setCache(data, String(now + CACHE_DURATION)) resolves:
\* setAnimals(data)
SetCacheDone(r) ==
    /\ r \in 1..Len(runs)
    /\ runs[r].pc = "setCache"
    /\ idb' = [cache |-> Some(runs[r].data),
               expire |-> now + CACHE_DURATION_idb]
    /\ EndRun(r, "api", runs[r].data)
    /\ lastOp' = [op |-> "setCache", arg |-> r]
    /\ UNCHANGED <<error, filters, currentPage, showFilter, effectPending>>
    /\ UNCHANGED <<forceRefresh, apiData, isLoggedIn, currentUser,
                   hasRefetched, collects>>
    /\ UNCHANGED <<hookVars, apiVars>>

\* syncFavorites: await get(collectsRef) resolves; with favorites, remove()
\* is called for each outdated entry
SyncGet(i) ==
    /\ i \in 1..Len(syncs)
    /\ syncs[i].pc = "get"
    /\ LET out == IF collects = {} THEN {}
                  ELSE outdated(collects, syncs[i].animals)
       IN  syncs' = [syncs EXCEPT
                        ![i].snapshot = collects,
                        ![i].pending = {e.key : e \in out},
                        ![i].pc = IF out = {} THEN "done" ELSE "remove"]
    /\ lastOp' = [op |-> "syncGet", arg |-> i]
    /\ UNCHANGED dataVars
    /\ UNCHANGED <<forceRefresh, runs, idb, apiData, isLoggedIn, currentUser,
                   hasRefetched, collects>>
    /\ UNCHANGED <<hookVars, apiVars>>

\* one remove(ref(db, `users/${user.uid}/collects/${key}`)) takes effect;
\* await Promise.all(removePromises) resolves after the last
SyncRemove(i, key) ==
    /\ i \in 1..Len(syncs)
    /\ syncs[i].pc = "remove"
    /\ key \in syncs[i].pending
    /\ collects' = {e \in collects : e.key # key}
    /\ syncs' = [syncs EXCEPT
                    ![i].pending = @ \ {key},
                    ![i].removed = @ \cup {key},
                    ![i].pc = IF syncs[i].pending = {key} THEN "done"
                              ELSE "remove"]
    /\ lastOp' = [op |-> "syncRemove", arg |-> key]
    /\ UNCHANGED dataVars
    /\ UNCHANGED <<forceRefresh, runs, idb, apiData, isLoggedIn, currentUser,
                   hasRefetched>>
    /\ UNCHANGED <<hookVars, apiVars>>

CollectNext ==
    \/ Mount
    \/ LogIn
    \/ LogOut
    \/ \E r \in 1..Len(runs) : GetCacheDone(r)
    \/ \E r \in 1..Len(runs) : FetchOk(r)
    \/ \E r \in 1..Len(runs) : FetchError(r)
    \/ \E r \in 1..Len(runs) : FetchAborted(r)
    \/ \E r \in 1..Len(runs) : SetCacheDone(r)
    \/ \E i \in 1..Len(syncs) : SyncGet(i)
    \/ \E i \in 1..Len(syncs), key \in Ids : SyncRemove(i, key)

SpecCollect == CollectInit /\ [][CollectNext]_vars

\* ================================================ filterAnimals applied
\* (src/src/utils/filterAnimals.js called with any list and any filters)

\* animals of the API with the shapes the fields take: a missing field, a
\* kind that contains the type, upper case and white space
Samples ==
    <<[animal_id |-> 1,
       animal_place |-> <<"tai", "bei", "shi", "suo">>,
       animal_kind |-> Str1("mao"),
       animal_sex |-> Str1("M"),
       animal_colour |-> Str2("hei", "se"),
       animal_bodytype |-> Str1("B"),
       animal_Variety |-> Str3("A", " ", "b")],
      [animal_id |-> 2,
       animal_place |-> <<"xin", "bei", "shi", "suo">>,
       animal_kind |-> Str1("gou"),
       animal_sex |-> Str1("F"),
       animal_colour |-> Str1("bai"),
       animal_bodytype |-> Str1("M"),
       animal_Variety |-> Undefined],
      [animal_id |-> 3,
       animal_place |-> Undefined,
       animal_kind |-> Str1("niao"),
       animal_sex |-> Str1("N"),
       animal_colour |-> Undefined,
       animal_bodytype |-> Undefined,
       animal_Variety |-> Str1("b")],
      [animal_id |-> 4,
       animal_place |-> <<"tai", "bei", "shi", "suo">>,
       animal_kind |-> Undefined,
       animal_sex |-> Str1("M"),
       animal_colour |-> Str2("cha", "se"),
       animal_bodytype |-> Str1("M"),
       animal_Variety |-> Str1("A")],
      [animal_id |-> 5,
       animal_place |-> <<"xin", "bei", "shi", "suo">>,
       animal_kind |-> Str2("xiao", "mao"),
       animal_sex |-> Str1("F"),
       animal_colour |-> Str3("hu", " ", "ban"),
       animal_bodytype |-> Str1("B"),
       animal_Variety |-> Str2("a", "b")]>>

\* the lists filterAnimals is called with: the prefixes of Samples, the
\* empty list included
SampleLists == {SubSeq(Samples, 1, n) : n \in 0..Len(Samples)}

\* the values of the six filter fields ("" is no filter)
FilterValues ==
    [area |-> AREAS,
     type |-> TYPES,
     sex |-> SEXES,
     color |-> {<<>>, Str2("zong", "se"), Str1("ban"), Str1(" ")},
     bodytype |-> {<<>>, Str2("b", " ")},
     variety |-> {<<>>, Str2("A", "b")}]

FilterFields == {"area", "type", "sex", "color", "bodytype", "variety"}

FilterInit ==
    /\ animals \in SampleLists
    /\ loading = FALSE
    /\ error = FALSE
    /\ filters = NoFilters
    /\ currentPage = 1
    /\ showFilter = FALSE
    /\ effectPending = FALSE
    /\ lastOp = NoOp
    /\ HookIdle
    /\ ApiIdle
    /\ CollectIdle

\* filterAnimals(animals, filters) with one field of filters set to value;
\* lastOp.arg is the length of the list returned
ApplyFilter(field, value) ==
    /\ filters[field] # value
    /\ filters' = [filters EXCEPT ![field] = value]
    /\ lastOp' = [op |-> field, arg |-> Len(filterAnimals(animals, filters'))]
    /\ UNCHANGED <<animals, loading, error, currentPage, showFilter,
                   effectPending>>
    /\ UNCHANGED hookVars
    /\ UNCHANGED <<apiVars, collectVars>>

FilterNext ==
    \E field \in FilterFields :
        \E value \in FilterValues[field] : ApplyFilter(field, value)

SpecFilter == FilterInit /\ [][FilterNext]_vars

\* ================================================== claims about the hook
Max(a, b) == IF a >= b THEN a ELSE b
Min(a, b) == IF a <= b THEN a ELSE b
IsEllipsis(item) == item.type \in {"start-ellipsis", "end-ellipsis"}
\* the pages kept as explicit page items around currentPage p of tp pages
Retained(p, tp) == {1, tp, p - 1, p, p + 1}
InRange == page \in 1..hook.totalPage

\* C1: for every total >= 0 and pageSize > 0 the returned totalPage is
\* max(1, ceil(total / pageSize)), the ceiling being the least n with
\* n * pageSize >= total.
C1_TotalPageIsMaxOneCeil ==
    hook.totalPage =
        Max(1, CHOOSE n \in 0..total :
                   /\ n * pageSize >= total
                   /\ \A m \in 0..(n - 1) : m * pageSize < total)

\* C2: with withEllipsis and 1 <= page <= totalPage, page p stays a page item
\* iff p is 1, totalPage, page-1, page or page+1; any other p is retagged
\* start-ellipsis when p < page and end-ellipsis when p > page.
C2_RetainedSet ==
    (withEllipsis /\ InRange) =>
        /\ Len(hookMarked) = hook.totalPage
        /\ \A p \in 1..hook.totalPage :
              /\ hookMarked[p].page = p
              /\ hookMarked[p].type =
                    IF p \in Retained(page, hook.totalPage) THEN "page"
                    ELSE IF p < page THEN "start-ellipsis" ELSE "end-ellipsis"

C2_Witness ==
    /\ withEllipsis /\ InRange
    /\ \E p, q \in 1..hook.totalPage :
          /\ hookMarked[p].type = "start-ellipsis"
          /\ hookMarked[q].type = "end-ellipsis"

\* a maximal run a..b of markers of one ellipsis type in the marked list
IsRun(marked, a, b) ==
    /\ a <= b
    /\ IsEllipsis(marked[a])
    /\ \A i \in a..b : marked[i].type = marked[a].type
    /\ (a > 1 => marked[a - 1].type # marked[a].type)
    /\ (b < Len(marked) => marked[b + 1].type # marked[a].type)

\* C3: with withEllipsis, after the collapse every contiguous run of
\* same-type ellipsis markers is represented by exactly one marker, every
\* page item is kept, and no two adjacent output items are ellipses of the
\* same type.
C3_OneMarkerPerRun ==
    withEllipsis =>
        /\ ~hook.threw
        /\ \A a, b \in 1..Len(hookMarked) :
              IsRun(hookMarked, a, b) =>
                  Cardinality({i \in 1..Len(hook.items) :
                      /\ hook.items[i].type = hookMarked[a].type
                      /\ hook.items[i].page \in a..b}) = 1
        /\ \A p \in 1..Len(hookMarked) :
              hookMarked[p].type = "page" =>
                  \E i \in 1..Len(hook.items) : hook.items[i] = hookMarked[p]
        /\ \A i \in 1..(Len(hook.items) - 1) :
              ~(/\ IsEllipsis(hook.items[i])
                /\ hook.items[i].type = hook.items[i + 1].type)

C3_Witness ==
    /\ withEllipsis
    /\ \E a, b, c, d \in 1..Len(hookMarked) :
          /\ a < b /\ c < d
          /\ IsRun(hookMarked, a, b) /\ hookMarked[a].type = "start-ellipsis"
          /\ IsRun(hookMarked, c, d) /\ hookMarked[c].type = "end-ellipsis"
    /\ Len(hook.items) = 7

\* C4: next passes page+1 clamped at totalPage to onChange and prev passes
\* page-1 clamped at 1; at page = totalPage next yields totalPage and at
\* page = 1 prev yields 1.
C4_NextPrevClamped ==
    [][/\ lastOp'.op = "next" =>
            /\ onChangeArg' = Min(page + 1, hook.totalPage)
            /\ (page = hook.totalPage => onChangeArg' = page)
       /\ lastOp'.op = "prev" =>
            /\ onChangeArg' = Max(page - 1, 1)
            /\ (page = 1 => onChangeArg' = page)]_vars

C4_Witness ==
    /\ lastOp.op = "next"
    /\ page = hook.totalPage
    /\ page > 1
    /\ onChangeArg = page

\* C6 as stated: with withEllipsis, totalPage <= 5 and page in 1..totalPage,
\* no page is turned into an ellipsis and the collapse drops no item.
C6_NoEllipsisUpToFive ==
    (withEllipsis /\ InRange /\ hook.totalPage <= 5) =>
        /\ \A p \in 1..Len(hookMarked) : hookMarked[p].type = "page"
        /\ Len(hook.items) = Len(hookMarked)

\* C6 amended: with withEllipsis and page in 1..totalPage, when
\* totalPage <= 3 every page is in the retained set and no page is turned
\* into an ellipsis, and when totalPage <= 4 the collapse drops no item.
C6_NoEllipsisUpToThree ==
    (withEllipsis /\ InRange) =>
        /\ hook.totalPage <= 3 =>
              /\ 1..hook.totalPage \subseteq Retained(page, hook.totalPage)
              /\ \A p \in 1..Len(hookMarked) : hookMarked[p].type = "page"
              /\ hook.items = hookItems
        /\ hook.totalPage <= 4 => Len(hook.items) = Len(hookMarked)

C6_Witness ==
    /\ withEllipsis
    /\ hook.totalPage = 3
    /\ page = 1
    /\ Len(hook.items) = 3

\* C7: for total = 0 the hook returns totalPage = 1 and a list holding the
\* single page item for page 1, with no ellipsis marker.
C7_EmptyTotalOnePage ==
    total = 0 =>
        /\ hook.totalPage = 1
        /\ Len(hook.items) = 1
        /\ hook.items[1].type = "page"
        /\ hook.items[1].page = 1

\* C8: without withEllipsis the items are the page items 1..totalPage in
\* ascending order, all of type page, isCurrent exactly on page = item.
C8_FullListWithoutEllipsis ==
    ~withEllipsis =>
        /\ ~hook.threw
        /\ Len(hook.items) = hook.totalPage
        /\ \A i \in 1..hook.totalPage :
              hook.items[i] =
                  [type |-> "page", isCurrent |-> (i = page), page |-> i]

C8_Witness ==
    /\ ~withEllipsis
    /\ hook.totalPage >= 6
    /\ page \in 3..(hook.totalPage - 3)
    /\ hook.items[page].isCurrent

\* C9: every navigation request invokes onChange exactly once with its
\* target page (the clicked item's page, or the clamped next / previous
\* page), and a render invokes it not at all.
C9_OnChangeOncePerRequest ==
    [][/\ lastOp'.op = "click" =>
            /\ onChangeCount' = onChangeCount + 1
            /\ onChangeArg' = lastOp'.arg
       /\ lastOp'.op = "next" =>
            /\ onChangeCount' = onChangeCount + 1
            /\ onChangeArg' = Min(page + 1, hook.totalPage)
       /\ lastOp'.op = "prev" =>
            /\ onChangeCount' = onChangeCount + 1
            /\ onChangeArg' = Max(page - 1, 1)
       /\ lastOp'.op = "render" =>
            /\ onChangeCount' = onChangeCount
            /\ onChangeArg' = onChangeArg]_vars

C9_Witness ==
    /\ lastOp.op = "click"
    /\ lastOp.arg > 1
    /\ onChangeCount = 1
    /\ onChangeArg = lastOp.arg

\* C10: for every total >= 0, pageSize >= 1 and page >= 1 (also above
\* totalPage) the collapse reads no neighbour outside the marked list: a
\* start-ellipsis has a successor and an end-ellipsis a predecessor.
C10_NeighbourInRange ==
    /\ ~hook.threw
    /\ \A i \in 1..Len(hookMarked) :
          /\ hookMarked[i].type = "start-ellipsis" => i < Len(hookMarked)
          /\ hookMarked[i].type = "end-ellipsis" => i > 1

C10_Witness ==
    /\ page > hook.totalPage + 1
    /\ withEllipsis
    /\ \E i \in 1..Len(hook.items) : hook.items[i].type = "start-ellipsis"
    /\ hookMarked[Len(hookMarked) - 1].type = "start-ellipsis"

\* the types and the pages of an item list
TypesOf(its) == [i \in 1..Len(its) |-> its[i].type]
PagesOf(its) == [i \in 1..Len(its) |-> its[i].page]
CurrentOf(its) == {i \in 1..Len(its) : its[i].isCurrent}

\* C11: for totalPage = 10, page = 5 and withEllipsis the output is
\* [1, start-ellipsis, 4, 5 (current), 6, end-ellipsis, 10]: the explicit
\* pages are exactly 1, 4, 5, 6, 10, with one start-ellipsis between 1 and 4
\* and one end-ellipsis between 6 and 10.
C11_TenPagesAtFive ==
    (withEllipsis /\ hook.totalPage = 10 /\ page = 5) =>
        /\ TypesOf(hook.items) =
              <<"page", "start-ellipsis", "page", "page", "page",
                "end-ellipsis", "page">>
        /\ {hook.items[i].page : i \in {1, 3, 4, 5, 7}} = {1, 4, 5, 6, 10}
        /\ hook.items[2].page \in 2..3
        /\ hook.items[6].page \in 7..9
        /\ CurrentOf(hook.items) = {4}
        /\ hook.items[4].page = 5

C11_Witness ==
    /\ withEllipsis
    /\ hook.totalPage = 10
    /\ page = 5
    /\ Len(hook.items) = 7
    /\ hook.items[2].type = "start-ellipsis"

\* C13: for totalPage = 3 and any page in 1..3 the output is the three page
\* items 1, 2, 3 and holds no ellipsis marker, with or without withEllipsis.
C13_ThreePagesNoEllipsis ==
    (hook.totalPage = 3 /\ page \in 1..3) =>
        /\ TypesOf(hook.items) = <<"page", "page", "page">>
        /\ PagesOf(hook.items) = <<1, 2, 3>>

C13_Witness ==
    /\ hook.totalPage = 3
    /\ page = 3
    /\ withEllipsis
    /\ PagesOf(hook.items) = <<1, 2, 3>>

\* C14: for 1 <= total <= pageSize (totalPage = 1) and page = 1 the output is
\* exactly the page item 1 with isCurrent true, with or without withEllipsis.
C14_SinglePage ==
    (total >= 1 /\ total <= pageSize /\ page = 1) =>
        /\ hook.totalPage = 1
        /\ hook.items = <<[type |-> "page", isCurrent |-> TRUE, page |-> 1]>>

C14_Witness ==
    /\ total >= 2
    /\ total <= pageSize
    /\ page = 1
    /\ withEllipsis
    /\ Len(hook.items) = 1

\* the number of items of one type in an item list
CountType(its, type) == Cardinality({i \in 1..Len(its) : its[i].type = type})

\* C16: with withEllipsis and 1 <= page <= totalPage the output holds a
\* start-ellipsis iff page >= 4 and an end-ellipsis iff page <= totalPage - 3,
\* at most one marker of each type and at most 7 items.
C16_MarkersAndLength ==
    (withEllipsis /\ InRange) =>
        /\ (CountType(hook.items, "start-ellipsis") >= 1) <=> (page >= 4)
        /\ (CountType(hook.items, "end-ellipsis") >= 1)
              <=> (page <= hook.totalPage - 3)
        /\ CountType(hook.items, "start-ellipsis") <= 1
        /\ CountType(hook.items, "end-ellipsis") <= 1
        /\ Len(hook.items) <= 7

C16_Witness ==
    /\ withEllipsis
    /\ InRange
    /\ page = 4
    /\ page = hook.totalPage - 3
    /\ CountType(hook.items, "start-ellipsis") = 1
    /\ CountType(hook.items, "end-ellipsis") = 1

\* C17: for 1 <= page <= totalPage the pages of the output items are
\* strictly increasing, exactly one item is current and it is the page item
\* of the current page, and the first and last items are the page items 1
\* and totalPage.
C17_OrderedOneCurrent ==
    InRange =>
        /\ ~hook.threw
        /\ \A i \in 1..(Len(hook.items) - 1) :
              hook.items[i].page < hook.items[i + 1].page
        /\ Cardinality(CurrentOf(hook.items)) = 1
        /\ \A i \in CurrentOf(hook.items) :
              hook.items[i].type = "page" /\ hook.items[i].page = page
        /\ hook.items[1].type = "page"
        /\ hook.items[1].page = 1
        /\ hook.items[Len(hook.items)].type = "page"
        /\ hook.items[Len(hook.items)].page = hook.totalPage

C17_Witness ==
    /\ withEllipsis
    /\ InRange
    /\ hook.totalPage >= 8
    /\ page = hook.totalPage - 1
    /\ hook.items[Len(hook.items) - 1].isCurrent

\* C18: the JavaScript hook and its TypeScript copy agree: for every
\* page >= 1, pageSize > 0, total >= 0 and withEllipsis they return the same
\* totalPage, the same items and the same next / previous targets.
C18_JsEqualsTs ==
    /\ hook.threw = hook_ts.threw
    /\ hook.totalPage = hook_ts.totalPage
    /\ hook.items = hook_ts.items
    /\ handleClickNext(page, hook.totalPage)
          = handleClickNext_ts(page, hook_ts.totalPage)
    /\ handleClickPrev(page) = handleClickPrev_ts(page)

\* ============================================== claims about the Data page
\* C5: in every render of the Data page usePagination is called with a
\* currentPage inside 1..totalPages, totalPages being the page count floored
\* at 1 (an empty list counts as one page).
C5_CurrentPageInRange ==
    currentPage \in 1..Max(1, pagination.totalPage)

\* C12: for 200 filtered animals, 18 per page, currentPage = 1 and
\* withEllipsis, totalPage is 12 and the output is
\* [page 1 (current), page 2, end-ellipsis, page 12].
C12_TwoHundredItems ==
    (Len(filteredAnimals) = 200 /\ currentPage = 1) =>
        /\ pagination.totalPage = 12
        /\ TypesOf(pagination.items) = <<"page", "page", "end-ellipsis", "page">>
        /\ pagination.items[1] = [type |-> "page", isCurrent |-> TRUE, page |-> 1]
        /\ pagination.items[2] = [type |-> "page", isCurrent |-> FALSE, page |-> 2]
        /\ pagination.items[3].page \in 3..11
        /\ pagination.items[4] = [type |-> "page", isCurrent |-> FALSE, page |-> 12]

C12_Witness ==
    /\ ~loading
    /\ Len(filteredAnimals) = 200
    /\ currentPage = 1
    /\ lastOp.op = "prev"
    /\ Len(pagination.items) = 4

\* the slices of pages from..to, one after the other
RECURSIVE Slices(_, _, _)
Slices(fa, from, to) ==
    IF from > to THEN <<>>
    ELSE currentAnimals(fa, pageNum(from)) \o Slices(fa, from + 1, to)

IdsOf(as) == {as[i].animal_id : i \in 1..Len(as)}

\* C19: the slices of pages 1..totalPage partition the filtered list: they
\* are pairwise disjoint, together they are the filtered list in order, each
\* holds at most 18 animals, and when the list is not empty every page of
\* 1..totalPage, the last included, is not empty.
C19_SlicesPartition ==
    LET fa == filteredAnimals
        tp == pagination.totalPage
        sl(p) == currentAnimals(fa, pageNum(p))
    IN  /\ Slices(fa, 1, tp) = fa
        /\ \A p, q \in 1..tp : p # q => IdsOf(sl(p)) \cap IdsOf(sl(q)) = {}
        /\ \A p \in 1..tp : Len(sl(p)) <= 18
        /\ Len(fa) > 0 => \A p \in 1..tp : Len(sl(p)) >= 1

C19_Witness ==
    /\ ~loading
    /\ Len(filteredAnimals) = itemsPerPage + 1
    /\ currentPage = 2
    /\ Len(shownAnimals) = 1

\* C20: whenever the filters change, currentPage is eventually reset to 1 by
\* the effect, whatever page was shown, and the page then shows the first
\* slice of the newly filtered list.
C20_FilterChangeResetsPage ==
    (effectPending /\ lastOp.op \in {"filter", "reset"})
        ~> (/\ lastOp.op = "effect"
            /\ currentPage = 1
            /\ shownAnimals
                  = SubSeq(filteredAnimals, 1, Min(18, Len(filteredAnimals))))

C20_Witness ==
    /\ lastOp.op = "effect"
    /\ lastOp.arg > 1
    /\ currentPage = 1
    /\ filters # NoFilters
    /\ Len(filteredAnimals) > itemsPerPage
    /\ shownAnimals = SubSeq(filteredAnimals, 1, itemsPerPage)

\* ======================================= claims about the cloud function
\* the requests whose upstream fetch succeeded
OkReqs(rs) == {i \in 1..Len(rs) : rs[i].outcome = "ok"}

\* C21: when the upstream fetch of GET /animals fails (non-OK status,
\* network error or the abort after 10 seconds) the response is the cached
\* data if there is any and an HTTP 500 only if there is none; cachedData and
\* cachedTime stay as they were.
C21_FailureServesOldCache ==
    [][\A i \in 1..Len(reqs) :
          (/\ reqs[i].pc = "fetching"
           /\ reqs'[i].pc = "done"
           /\ reqs'[i].outcome \in {"status", "network", "abort"})
          => /\ cachedData' = cachedData
             /\ cachedTime' = cachedTime
             /\ cachedData.null => reqs'[i].res.status = 500
             /\ ~cachedData.null =>
                    /\ reqs'[i].res.status = 200
                    /\ reqs'[i].res.body = cachedData.value]_vars

C21_Witness ==
    \E i \in 1..Len(reqs) :
        /\ reqs[i].outcome = "abort"
        /\ now - cachedTime > 1000 * 60 * 60 * 6
        /\ ~cachedData.null
        /\ cachedData.value # <<>>
        /\ reqs[i].res = Response(200, cachedData.value, FALSE)

\* C22: a GET /animals request that arrives while cachedData is set and
\* now - cachedTime < 6 hours is answered with cachedData, without a fetch
\* of the upstream API and without a change of cachedData or cachedTime; one
\* that arrives with no cache, or a cache aged 6 hours or more, attempts the
\* upstream fetch.
C22_FreshCacheServed ==
    [][/\ \A i \in 1..Len(reqs) : reqs[i].pc = "done" => reqs'[i] = reqs[i]
       /\ Len(reqs') = Len(reqs) + 1 =>
            LET r == reqs'[Len(reqs) + 1]
            IN  (r.method = "GET" /\ r.path = "/animals") =>
                  IF ~cachedData.null /\ now - cachedTime < 1000 * 60 * 60 * 6
                  THEN /\ r.pc = "done"
                       /\ ~r.fetched
                       /\ r.res.status = 200
                       /\ r.res.body = cachedData.value
                       /\ cachedData' = cachedData
                       /\ cachedTime' = cachedTime
                  ELSE /\ r.fetched
                       /\ r.pc = "fetching"]_vars

C22_Witness ==
    /\ Len(reqs) = 2
    /\ reqs[1].outcome = "ok"
    /\ reqs[2].path = "/animals"
    /\ reqs[2].method = "GET"
    /\ reqs[2].pc = "done"
    /\ ~reqs[2].fetched
    /\ reqs[2].now - cachedTime = (1000 * 60 * 60 * 6) - 10000
    /\ reqs[2].res.body = reqs[1].res.body

\* C23: under any interleaving of concurrent GET /animals requests,
\* cachedTime never decreases and cachedData is the result of the successful
\* upstream fetch with the latest request time: an earlier-started, slower
\* request never overwrites the entry written by a later-started one.
C23_CacheNeverGoesBack ==
    [][/\ cachedTime' >= cachedTime
       /\ OkReqs(reqs') # {} =>
            \E i \in OkReqs(reqs') :
                /\ \A j \in OkReqs(reqs') : reqs'[j].now <= reqs'[i].now
                /\ cachedTime' = reqs'[i].now
                /\ cachedData' = Some(reqs'[i].res.body)]_vars

\* ========================================= claims about the Collect page
\* a run started by refetch() has not ended
RefetchInFlight(rs) ==
    \E q \in 1..Len(rs) :
        rs[q].forceRefresh > 0 /\ ~rs[q].aborted /\ rs[q].pc # "done"

\* C24: once refetch() has been called, the superseded earlier run of
\* useFetchAnimals is inert: it never sets loading to false while the
\* refetch is in flight and never overwrites animals with cached data, so
\* that when the refetch run completes successfully animals holds the
\* freshly fetched API data.
C24_SupersededRunInert ==
    [][\A r \in 1..Len(runs) :
          /\ (/\ runs[r].aborted
              /\ runs[r].pc # "done"
              /\ runs'[r].pc = "done")
             => /\ RefetchInFlight(runs) => loading' = loading
                /\ animals' = animals
          /\ (/\ runs[r].forceRefresh > 0
              /\ runs[r].pc # "done"
              /\ runs'[r].end = "api")
             => animals' = apiData]_vars

\* C25: on the Collect page a favorite is removed from the user's collects
\* only if its animal_id is absent from the freshly refetched API list; the
\* sync never deletes on the basis of the stale IndexedDB list delivered by
\* the initial, superseded load.
C25_RemovedOnlyIfGoneFromApi ==
    [][\A e \in collects \ collects' :
          e.animal_id \notin IdsOf(apiData)]_vars

RECURSIVE IsSubsequence(_, _)
IsSubsequence(s, t) ==
    IF s = <<>> THEN TRUE
    ELSE IF t = <<>> THEN FALSE
    ELSE IF Head(s) = Head(t) THEN IsSubsequence(Tail(s), Tail(t))
    ELSE IsSubsequence(s, Tail(t))

\* the animal satisfies the predicate of every field that has a filter
SatisfiesActive(a, f) ==
    /\ f.area # <<>> => areaMatch(a, f.area)
    /\ f.type # <<>> => typeMatch(a, f.type)
    /\ f.sex # <<>> => sexMatch(a, f.sex)
    /\ f.color # <<>> => colorMatch(a, f.color)
    /\ f.bodytype # <<>> => bodyTypeMatch(a, f.bodytype)
    /\ f.variety # <<>> => varietyMatch(a, f.variety)

\* no character of the kind is "mao" or "gou" (a missing kind has none)
NeitherCatNorDog(a) ==
    \/ a.animal_kind = Undefined
    \/ \A k \in 1..Len(a.animal_kind) : a.animal_kind[k] \notin {"mao", "gou"}

\* C27: filterAnimals returns exactly the animals that satisfy every active
\* field predicate (area, type, sex, color, bodytype, variety), in input
\* order and with the input as it was; with all filters empty it returns
\* every animal, adding a filter never adds an animal to the result, and the
\* type filter "qi ta" (other) matches exactly the animals whose kind
\* contains neither "mao" (cat) nor "gou" (dog).
C27_FilterExact ==
    [][LET before == filterAnimals(animals, filters)
           after == filterAnimals(animals', filters')
       IN  /\ animals' = animals
           /\ IsSubsequence(after, animals')
           /\ \A i \in 1..Len(animals') :
                  (\E j \in 1..Len(after) : after[j] = animals'[i])
                      <=> SatisfiesActive(animals'[i], filters')
           /\ filters' = NoFilters => after = animals'
           /\ (\E field \in FilterFields :
                  /\ filters[field] = <<>>
                  /\ filters' = [filters EXCEPT ![field] = filters'[field]])
              => /\ IsSubsequence(after, before)
                 /\ Len(after) <= Len(before)
           /\ (filters' = [NoFilters EXCEPT !.type = Str2("qi", "ta")])
              => \A i \in 1..Len(animals') :
                     (\E j \in 1..Len(after) : after[j] = animals'[i])
                         <=> NeitherCatNorDog(animals'[i])]_vars

C27_Witness ==
    /\ animals = Samples
    /\ filters = [NoFilters EXCEPT !.type = Str2("qi", "ta")]
    /\ lastOp = [op |-> "type", arg |-> 2]
    /\ IdsOf(filterAnimals(animals, filters)) = {3, 4}

====
